---- MODULE Spec2Model ----
(***************************************************************************)
(* Model of service2.py, the "Data Processing Service": an in-memory       *)
(* store of processed user records (processed_users_db), the CRUD handlers *)
(* on it, the /analytics aggregation, which iterates the store and awaits  *)
(* one remote lookup per record, and the two handlers that only talk to    *)
(* the peer service, /cross-service-test and /batch-process.               *)
(*                                                                         *)
(* Scheduling.  The handlers are asyncio coroutines on one event loop: a   *)
(* handler runs without interruption up to its next await.  process_user,  *)
(* get_processed_user, get_all_processed_users and delete_processed_user   *)
(* contain no await, so each is one action.  get_analytics awaits the      *)
(* remote lookup of each record, so it is one action per segment between   *)
(* two awaits, and any other handler may run while it is suspended.        *)
(* cross_service_test and batch_process_users are split at their awaits    *)
(* in the same way.                                                        *)
(*                                                                         *)
(* Representation.                                                         *)
(*  - str values are sequences of one-character strings, so that len,      *)
(*    upper and split are computed and not assumed.                        *)
(*  - Optional[int] is <<>> for None and <<n>> for the integer n.          *)
(*  - floats with two decimals are integers counting hundredths            *)
(*    (0.95 is 95, an average_age of 28.33 is 2833).                       *)
(*  - processing_timestamp (datetime.now().isoformat(), line 69) is left   *)
(*    out of the record: no handler reads it.                              *)
(***************************************************************************)
EXTENDS Integers, Sequences, FiniteSets, TLC

\* ------------------------------------------------------------------ bounds

\* User identifiers submitted to the service are 1..MaxId (besides None and 0).
MaxId == 2

\* The peer's GET /users answers a list of at most MaxUsers users.
MaxUsers == 2

\* The ages of the users whose derived fields are examined are -MaxAge..MaxAge.
MaxAge == 60

Ids == 1 .. MaxId

\* ------------------------------------------------------------------ str

LowerCase ==
    << "a", "b", "c", "d", "e", "f", "g", "h", "i", "j", "k", "l", "m",
       "n", "o", "p", "q", "r", "s", "t", "u", "v", "w", "x", "y", "z" >>

UpperCase ==
    << "A", "B", "C", "D", "E", "F", "G", "H", "I", "J", "K", "L", "M",
       "N", "O", "P", "Q", "R", "S", "T", "U", "V", "W", "X", "Y", "Z" >>

\* str.upper() on one character: a lower-case letter becomes its capital,
\* any other character stays.
UpperChar(c) ==
    IF \E i \in 1 .. 26 : LowerCase[i] = c
    THEN UpperCase[CHOOSE i \in 1 .. 26 : LowerCase[i] = c]
    ELSE c

\* str.upper()
Upper(s) == [i \in 1 .. Len(s) |-> UpperChar(s[i])]

\* "@" in email
HasAt(s) == \E i \in 1 .. Len(s) : s[i] = "@"

\* The index of the last "@" of s (s holds one).
LastAt(s) == CHOOSE i \in 1 .. Len(s) :
                 /\ s[i] = "@"
                 /\ \A j \in (i + 1) .. Len(s) : s[j] # "@"

Unknown == <<"u", "n", "k", "n", "o", "w", "n">>

\* email.split("@")[-1] if "@" in email else "unknown"
EmailDomain(email) ==
    IF HasAt(email) THEN SubSeq(email, LastAt(email) + 1, Len(email))
                    ELSE Unknown

\* The categories with 30 still young and 50 still middle (<= for <).
AgeCategory_Inclusive(age) ==
    IF age <= 30 THEN "young" ELSE IF age <= 50 THEN "middle" ELSE "senior"

\* "young" if age < 30 else "middle" if age < 50 else "senior"
AgeCategory(age) ==
    IF age < 30 THEN "young" ELSE IF age < 50 THEN "middle" ELSE "senior"

\* The processed_data dictionary of process_user.
ProcessedData(user) ==
    [ name_length     |-> Len(user.name),
      email_domain    |-> EmailDomain(user.email),
      age_category    |-> AgeCategory(user.age),
      name_uppercase  |-> Upper(user.name),
      email_uppercase |-> Upper(user.email),
      age_squared     |-> user.age * user.age,
      is_adult        |-> user.age >= 18 ]

\* The analytics block of a stored record: constants.
RecordAnalytics ==
    [ processing_time_ms |-> 150, data_quality_score |-> 95, confidence_level |-> 88 ]

\* ProcessedUserData(user_id=user.id, processed_data=..., analytics=...)
ProcessedUserData(user) ==
    [ user_id        |-> user.id[1],
      processed_data |-> ProcessedData(user),
      analytics      |-> RecordAnalytics ]

\* ------------------------------------------------------------------ inputs

\* name, email and age of the users submitted: one per age category, with and
\* without "@", an email with two "@", a minor.
Persons ==
    { [name |-> <<"a", "l">>,      email |-> <<"a", "@", "b", ".", "c">>, age |-> 17],
      [name |-> <<"B", "o", "b">>, email |-> <<"n", "o", "a", "t">>,      age |-> 30],
      [name |-> <<"C", "y">>,      email |-> <<"c", "@", "b", "@", "a">>, age |-> 50] }

\* The id field of a request body: None, 0, or an identifier.
IdInputs == {<<>>, <<0>>} \cup {<<i>> : i \in Ids}

RawUsers ==
    { [id |-> i, name |-> p.name, email |-> p.email, age |-> p.age] :
          i \in IdInputs, p \in Persons }

\* `user.id is None`: 0 passes.
Falsy_NoneOnly(id) == id = <<>>

\* `not user.id`: None and 0 are falsy.
Falsy(id) == id = <<>> \/ id = <<0>>

\* ------------------------------------------------------------------ dict

\* A dict is the sequence of its items [key, value] in insertion order; {} is <<>>.
EmptyDict == <<>>

DictKeys(d) == {d[i].key : i \in 1 .. Len(d)}

\* The place of key k among the items of d (k is a key of d).
DictIndex(d, k) == CHOOSE i \in 1 .. Len(d) : d[i].key = k

\* d[k] that answers the first value whatever the key.
DictGet_First(d, k) == d[1].value

\* d[k]
DictGet(d, k) == d[DictIndex(d, k)].value

\* list(d.values())
DictValues(d) == [i \in 1 .. Len(d) |-> d[i].value]

\* d[k] = v that drops every other item (d = {k: v}).
DictSet_Only(d, k, v) == <<[key |-> k, value |-> v]>>

\* d[k] = v that moves an existing key to the end (del d[k]; d[k] = v).
DictSet_MoveToEnd(d, k, v) ==
    Append(SelectSeq(d, LAMBDA item : item.key # k), [key |-> k, value |-> v])

\* d[k] = v: an existing key keeps its place, a new key goes to the end.
DictSet(d, k, v) ==
    IF k \in DictKeys(d)
    THEN [d EXCEPT ![DictIndex(d, k)] = [key |-> k, value |-> v]]
    ELSE Append(d, [key |-> k, value |-> v])

\* d.pop(k) that removes nothing (d.get(k)).
DictPop_Keep(d, k) == d

\* d.pop(k) (k is a key of d): the dict without the item of k.
DictPop(d, k) ==
    LET j == DictIndex(d, k)
    IN  SubSeq(d, 1, j - 1) \o SubSeq(d, j + 1, Len(d))

\* ------------------------------------------------------------------ state

VARIABLES
    processed_users_db,   \* line 33: the store, a dict user_id -> ProcessedUserData
    analytics_cache,      \* line 34: a dict
    agg,                  \* the get_analytics request in flight: its locals and
                          \* the iterator of its for loop
    peer_log,             \* history of the get_analytics in flight, or of the one
                          \* that sent the last response (see NoLog)
    written,              \* history: for each identifier, <<user>> for the user of
                          \* its most recent successful POST if no successful
                          \* DELETE of it came later, and <<>> otherwise
    resp,                 \* the last HTTP response sent
    batch,                \* the batch_process_users request in flight: its locals
    batch_log,            \* history of the batch_process_users in flight: what
                          \* each submission it has awaited came to, in order
    cross,                \* the cross_service_test request in flight: its locals
    cross_log             \* history of the cross_service_test in flight: what
                          \* each probe it has awaited came to, in order

vars == <<processed_users_db, analytics_cache, agg, peer_log, written, resp,
          batch, batch_log, cross, cross_log>>

\* The state of the handlers that only talk to the peer.
peer_vars == <<batch, batch_log, cross, cross_log>>

Categories == {"young", "middle", "senior"}

\* JSON values of the "age" field of the peer's reply: a number, or not one.
JNum(n) == [t |-> "num", v |-> n]
JStr    == [t |-> "str", v |-> 0]

\* Ages the peer reports (they differ from the estimates 25, 40, 60).
PeerAges == {33}

\* What one `client.get(SERVICE1_URL/users/<id>)` can come to.
\*   ok            200, a JSON object with a numeric "age"
\*   non200        a response whose status is not 200
\*   timeout       httpx.TimeoutException after SERVICE1_TIMEOUT
\*   connect_error httpx.ConnectError
\*   bad_json      200, the body is not JSON: response.json() raises
\*   no_age        200, a JSON object without "age": user["age"] raises KeyError
\*   bad_age       200, a JSON object whose "age" is not a number
PeerOutcomes ==
    { [kind |-> "ok", age |-> JNum(a)] : a \in PeerAges }
    \cup { [kind |-> k, age |-> JStr] :
             k \in {"non200", "timeout", "connect_error", "bad_json", "no_age", "bad_age"} }

\* The outcomes in which the try block of lines 128-133 raises.
Raises(o) == o.kind \in {"timeout", "connect_error", "bad_json", "no_age"}

\* An outcome as the history keeps it: the lookup raised, answered another
\* status than 200, or answered 200 with an "age" (a number or not).
Result(o) ==
    IF Raises(o) THEN "raised" ELSE IF o.kind = "non200" THEN "non200" ELSE o.kind

\* No get_analytics in flight.
AggIdle ==
    [ pc               |-> "idle",
      total_users      |-> 0,
      ages             |-> <<>>,
      age_distribution |-> <<>>,
      user_id          |-> 0,
      age_category     |-> "none",
      it_pos           |-> 0,
      it_used          |-> 0,
      it_len           |-> 0 ]

\* The history of a get_analytics:
\*   started      len(processed_users_db) when the handler was entered
\*   issued       the user_id of each lookup sent to the peer, in order
\*   calls        each lookup that has returned or raised, in order, as
\*                [user_id, age_category, result, age]
\*   unreachable  every lookup so far timed out or failed to connect
\*   mutated      the store was written while the handler was suspended
NoLog ==
    [ started |-> 0, issued |-> <<>>, calls |-> <<>>, unreachable |-> TRUE,
      mutated |-> FALSE ]

NoResponse == [op |-> "none", status |-> 0, body |-> <<>>]

\* No batch_process_users in flight.
BatchIdle == [pc |-> "idle", users |-> <<>>, next |-> 0, processed_count |-> 0]

\* No cross_service_test in flight.
CrossIdle == [pc |-> "idle", results |-> <<>>]

Init ==
    /\ processed_users_db = EmptyDict
    /\ analytics_cache = EmptyDict
    /\ agg = AggIdle
    /\ peer_log = NoLog
    /\ written = [i \in Ids |-> <<>>]
    /\ resp = NoResponse
    /\ batch = BatchIdle
    /\ batch_log = <<>>
    /\ cross = CrossIdle
    /\ cross_log = <<>>

HTTPException(op, code, detail) ==
    [op |-> op, status |-> code, body |-> [detail |-> detail]]

\* An exception no handler catches: the framework answers 500.
Unhandled(op, exc) ==
    [op |-> op, status |-> 500, body |-> [detail |-> exc]]

Ok(op, body) == [op |-> op, status |-> 200, body |-> body]

\* ------------------------------------------------------------------ the store's handlers

\* The iterator of a suspended get_analytics after the insertion of a new key
\* into the dict d.  CPython keeps the items in an entry table, in which a
\* removed item stays as a hole; the iterator holds an index into the table.
\* An insertion appends to the table, and when the table is full it first
\* rebuilds it without its holes (a resize): the iterator keeps its index, which
\* then lies as many live items further as it had holes before it.  How many
\* holes the table has, and when it is full, depends on the writes since the
\* dict was created and on the interpreter's growth policy, which the model
\* does not keep: the iterator skips any number `skip` of the items left.
IterAfterInsert(a, d, skip) ==
    IF a.pc = "await" /\ a.it_pos + skip <= Len(d) + 1
    THEN [a EXCEPT !.it_pos = a.it_pos + skip]
    ELSE a

\* The iterator of a suspended get_analytics after the removal of the item at
\* place j: the entry stays in the table as a hole, and the items before the
\* iterator's position are one fewer if the hole is among them.
IterAfterPop(a, j) ==
    IF a.pc = "await" /\ j <= a.it_pos
    THEN [a EXCEPT !.it_pos = a.it_pos - 1]
    ELSE a

\* The history after a handler other than get_analytics has answered: while a
\* get_analytics is suspended it records a write of the store; otherwise the
\* last response is no longer that of a get_analytics, and the history is over.
LogAfter(l, a, wrote) ==
    IF a.pc = "await"
    THEN [l EXCEPT !.mutated = l.mutated \/ wrote]
    ELSE NoLog

\* process_user that records the number of records in the cache in place of
\* clearing it (analytics_cache["total_users"] = len(processed_users_db)).
process_user_CachesCount(user) ==
    IF Falsy(user.id)
    THEN /\ resp' = HTTPException("process_user", 400, "User ID is required")
         /\ peer_log' = LogAfter(peer_log, agg, FALSE)
         /\ UNCHANGED <<processed_users_db, analytics_cache, agg, written, peer_vars>>
    ELSE /\ UNCHANGED peer_vars
         /\ processed_users_db' =
                DictSet(processed_users_db, user.id[1], ProcessedUserData(user))
         /\ analytics_cache' =
                DictSet(analytics_cache, "total_users", Len(processed_users_db'))
         /\ IF agg.pc = "await" /\ user.id[1] \notin DictKeys(processed_users_db)
            THEN \E skip \in 0 .. MaxId :
                     agg' = IterAfterInsert(agg, processed_users_db, skip)
            ELSE agg' = agg
         /\ peer_log' = LogAfter(peer_log, agg, TRUE)
         /\ written' = [written EXCEPT ![user.id[1]] = <<user>>]
         /\ resp' = Ok("process_user",
                       [message |-> "User processed successfully", user_id |-> user.id[1]])

\* POST /process-user
process_user(user) ==
    IF Falsy(user.id)
    THEN /\ resp' = HTTPException("process_user", 400, "User ID is required")
         /\ peer_log' = LogAfter(peer_log, agg, FALSE)
         /\ UNCHANGED <<processed_users_db, analytics_cache, agg, written, peer_vars>>
    ELSE /\ UNCHANGED peer_vars
         /\ processed_users_db' =
                DictSet(processed_users_db, user.id[1], ProcessedUserData(user))
         /\ analytics_cache' = EmptyDict
         /\ IF agg.pc = "await" /\ user.id[1] \notin DictKeys(processed_users_db)
            THEN \E skip \in 0 .. MaxId :
                     agg' = IterAfterInsert(agg, processed_users_db, skip)
            ELSE agg' = agg
         /\ peer_log' = LogAfter(peer_log, agg, TRUE)
         /\ written' = [written EXCEPT ![user.id[1]] = <<user>>]
         /\ resp' = Ok("process_user",
                       [message |-> "User processed successfully", user_id |-> user.id[1]])

\* GET /processed-users/{user_id}
get_processed_user(user_id) ==
    /\ resp' = IF user_id \notin DictKeys(processed_users_db)
               THEN HTTPException("get_processed_user", 404, "Processed user data not found")
               ELSE Ok("get_processed_user", DictGet(processed_users_db, user_id))
    /\ peer_log' = LogAfter(peer_log, agg, FALSE)
    /\ UNCHANGED <<processed_users_db, analytics_cache, agg, written, peer_vars>>

\* GET /processed-users
get_all_processed_users ==
    /\ resp' = Ok("get_all_processed_users", DictValues(processed_users_db))
    /\ peer_log' = LogAfter(peer_log, agg, FALSE)
    /\ UNCHANGED <<processed_users_db, analytics_cache, agg, written, peer_vars>>

\* delete_processed_user that empties the store (processed_users_db.clear()).
delete_processed_user_Clear(user_id) ==
    IF user_id \notin DictKeys(processed_users_db)
    THEN /\ resp' = HTTPException("delete_processed_user", 404, "Processed user data not found")
         /\ peer_log' = LogAfter(peer_log, agg, FALSE)
         /\ UNCHANGED <<processed_users_db, analytics_cache, agg, written, peer_vars>>
    ELSE /\ UNCHANGED peer_vars
         /\ processed_users_db' = EmptyDict
         /\ analytics_cache' = EmptyDict
         /\ agg' = IterAfterPop(agg, DictIndex(processed_users_db, user_id))
         /\ peer_log' = LogAfter(peer_log, agg, TRUE)
         /\ written' = [written EXCEPT ![user_id] = <<>>]
         /\ resp' = Ok("delete_processed_user", [message |-> "deleted", user_id |-> user_id])

\* delete_processed_user without the existence check of line 99: pop() raises
\* KeyError on an absent key, and nothing catches it.
delete_processed_user_NoCheck(user_id) ==
    IF user_id \notin DictKeys(processed_users_db)
    THEN /\ resp' = Unhandled("delete_processed_user", "KeyError")
         /\ peer_log' = LogAfter(peer_log, agg, FALSE)
         /\ UNCHANGED <<processed_users_db, analytics_cache, agg, written, peer_vars>>
    ELSE /\ UNCHANGED peer_vars
         /\ processed_users_db' = DictPop(processed_users_db, user_id)
         /\ analytics_cache' = EmptyDict
         /\ agg' = IterAfterPop(agg, DictIndex(processed_users_db, user_id))
         /\ peer_log' = LogAfter(peer_log, agg, TRUE)
         /\ written' = [written EXCEPT ![user_id] = <<>>]
         /\ resp' = Ok("delete_processed_user", [message |-> "deleted", user_id |-> user_id])

\* DELETE /processed-users/{user_id}
delete_processed_user(user_id) ==
    IF user_id \notin DictKeys(processed_users_db)
    THEN /\ resp' = HTTPException("delete_processed_user", 404, "Processed user data not found")
         /\ peer_log' = LogAfter(peer_log, agg, FALSE)
         /\ UNCHANGED <<processed_users_db, analytics_cache, agg, written, peer_vars>>
    ELSE /\ UNCHANGED peer_vars
         /\ processed_users_db' = DictPop(processed_users_db, user_id)
         /\ analytics_cache' = EmptyDict
         /\ agg' = IterAfterPop(agg, DictIndex(processed_users_db, user_id))
         /\ peer_log' = LogAfter(peer_log, agg, TRUE)
         /\ written' = [written EXCEPT ![user_id] = <<>>]
         /\ resp' = Ok("delete_processed_user", [message |-> "deleted", user_id |-> user_id])

\* ------------------------------------------------------------------ get_analytics

\* The estimate of lines 136-141.
Estimate(age_category) ==
    IF age_category = "young" THEN 25
    ELSE IF age_category = "middle" THEN 40
    ELSE 60

\* age_distribution[k] = 1: the bucket is set, not incremented.
DictIncr_Set(d, k) == IF k \in DOMAIN d THEN [d EXCEPT ![k] = 1] ELSE d @@ (k :> 1)

\* age_distribution[k] = age_distribution.get(k, 0) + 1
DictIncr(d, k) ==
    IF k \in DOMAIN d THEN [d EXCEPT ![k] = d[k] + 1] ELSE d @@ (k :> 1)

RECURSIVE SumAges(_)
\* sum(ages), every element a number
SumAges(ages) ==
    IF ages = <<>> THEN 0 ELSE ages[1].v + SumAges(Tail(ages))

\* round(total / n, 2) in hundredths (total >= 0, n > 0): to the nearest
\* hundredth, a tie to the even one.
Round2(total, n) ==
    LET q == (100 * total) \div n
        r == (100 * total) % n
    IN  IF 2 * r > n \/ (2 * r = n /\ q % 2 = 1) THEN q + 1 ELSE q

\* AnalyticsSummary(...)
AnalyticsSummary(total_users, average_age, age_distribution, processing_stats) ==
    [ total_users      |-> total_users,
      average_age      |-> average_age,
      age_distribution |-> age_distribution,
      processing_stats |-> processing_stats ]

\* Lines 143-157: the loop is over.  sum() raises TypeError on an element that
\* is not a number, and nothing catches it.
Finish(a) ==
    /\ agg' = AggIdle
    /\ resp' =
         IF \E i \in 1 .. Len(a.ages) : a.ages[i].t # "num"
         THEN Unhandled("get_analytics", "TypeError")
         ELSE Ok("get_analytics",
                 AnalyticsSummary(
                     a.total_users,
                     IF a.ages # <<>> THEN Round2(SumAges(a.ages), Len(a.ages)) ELSE 0,
                     a.age_distribution,
                     [ total_processed        |-> a.total_users,
                       avg_processing_time_ms |-> 150,
                       avg_confidence_level   |-> 88,
                       avg_data_quality_score |-> 95 ]))

\* Line 123, the for statement asking the iterator of processed_users_db.values()
\* for the next value, then lines 124-130 up to the await, or the loop's end.
\* The iterator raises RuntimeError when the dict's size is not the one it
\* started with, ends when no item is left at or after its position, and
\* raises RuntimeError when it finds an item after having given as many as
\* the dict held.  a is the handler's state and l its history before the step.
LoopNext(a, l) ==
    IF a.it_used # Len(processed_users_db)
    THEN /\ agg' = AggIdle
         /\ peer_log' = l
         /\ resp' = Unhandled("get_analytics",
                              "RuntimeError: dictionary changed size during iteration")
    ELSE IF a.it_pos >= Len(processed_users_db)
    THEN Finish(a) /\ peer_log' = l
    ELSE IF a.it_len = 0
    THEN /\ agg' = AggIdle
         /\ peer_log' = l
         /\ resp' = Unhandled("get_analytics",
                              "RuntimeError: dictionary keys changed during iteration")
    ELSE LET user_data    == processed_users_db[a.it_pos + 1].value
             age_category == user_data.processed_data.age_category
         IN  /\ agg' = [a EXCEPT !.pc = "await",
                                 !.it_pos = a.it_pos + 1,
                                 !.it_len = a.it_len - 1,
                                 !.age_distribution = DictIncr(a.age_distribution, age_category),
                                 !.user_id = user_data.user_id,
                                 !.age_category = age_category]
             /\ peer_log' = [l EXCEPT !.issued = Append(l.issued, user_data.user_id)]
             /\ UNCHANGED resp

\* get_analytics without lines 110-116, the return on an empty store.
get_analytics_NoEmptyReturn ==
    /\ agg.pc = "idle"
    /\ LoopNext([AggIdle EXCEPT
                    !.total_users = Len(processed_users_db),
                    !.age_distribution =
                        ("young" :> 0) @@ ("middle" :> 0) @@ ("senior" :> 0),
                    !.it_used = Len(processed_users_db),
                    !.it_len = Len(processed_users_db)],
                [NoLog EXCEPT !.started = Len(processed_users_db)])
    /\ UNCHANGED <<processed_users_db, analytics_cache, written, peer_vars>>

\* get_analytics whose loop leaves out the first record.
get_analytics_FromSecond ==
    /\ agg.pc = "idle"
    /\ IF processed_users_db = EmptyDict
       THEN /\ resp' = Ok("get_analytics", AnalyticsSummary(0, 0, EmptyDict, EmptyDict))
            /\ peer_log' = NoLog
            /\ UNCHANGED agg
       ELSE LoopNext([AggIdle EXCEPT
                         !.total_users = Len(processed_users_db),
                         !.age_distribution =
                             ("young" :> 0) @@ ("middle" :> 0) @@ ("senior" :> 0),
                         !.it_pos = 1,
                         !.it_used = Len(processed_users_db),
                         !.it_len = Len(processed_users_db)],
                     [NoLog EXCEPT !.started = Len(processed_users_db)])
    /\ UNCHANGED <<processed_users_db, analytics_cache, written, peer_vars>>

\* GET /analytics, up to its first await or, on an empty store, its return.
get_analytics ==
    /\ agg.pc = "idle"
    /\ IF processed_users_db = EmptyDict
       THEN /\ resp' = Ok("get_analytics", AnalyticsSummary(0, 0, EmptyDict, EmptyDict))
            /\ peer_log' = NoLog
            /\ UNCHANGED agg
       ELSE LoopNext([AggIdle EXCEPT
                         !.total_users = Len(processed_users_db),
                         !.age_distribution =
                             ("young" :> 0) @@ ("middle" :> 0) @@ ("senior" :> 0),
                         !.it_used = Len(processed_users_db),
                         !.it_len = Len(processed_users_db)],
                     [NoLog EXCEPT !.started = Len(processed_users_db)])
    /\ UNCHANGED <<processed_users_db, analytics_cache, written, peer_vars>>

\* Lines 131-141 for the outcome o of the awaited lookup: the list ages after it.
AgesAfter(a, o) ==
    IF o.kind \in {"ok", "bad_age"} THEN Append(a.ages, o.age)
    ELSE IF Raises(o) THEN Append(a.ages, JNum(Estimate(a.age_category)))
    ELSE a.ages

\* get_analytics_resume that stores the category of the age the peer reports.
get_analytics_resume_Refresh(o) ==
    /\ agg.pc = "await"
    /\ LoopNext([agg EXCEPT !.ages = AgesAfter(agg, o)],
                [peer_log EXCEPT
                    !.calls = Append(@, [ user_id      |-> agg.user_id,
                                          age_category |-> agg.age_category,
                                          result       |-> Result(o),
                                          age          |-> o.age ]),
                    !.unreachable = @ /\ o.kind \in {"timeout", "connect_error"}])
    /\ processed_users_db' =
           IF o.kind = "ok"
           THEN [processed_users_db EXCEPT
                    ![DictIndex(processed_users_db, agg.user_id)].value.processed_data.age_category =
                        AgeCategory(o.age.v)]
           ELSE processed_users_db
    /\ UNCHANGED <<analytics_cache, written, peer_vars>>

\* GET /analytics resumed by the outcome o of the lookup it awaits, up to its
\* next await or its return.
get_analytics_resume(o) ==
    /\ agg.pc = "await"
    /\ LoopNext([agg EXCEPT !.ages = AgesAfter(agg, o)],
                [peer_log EXCEPT
                    !.calls = Append(@, [ user_id      |-> agg.user_id,
                                          age_category |-> agg.age_category,
                                          result       |-> Result(o),
                                          age          |-> o.age ]),
                    !.unreachable = @ /\ o.kind \in {"timeout", "connect_error"}])
    /\ UNCHANGED <<processed_users_db, analytics_cache, written, peer_vars>>

\* ------------------------------------------------------------------ cross_service_test

\* What `client.get(SERVICE1_URL/health)` can come to.  The handler does not
\* look at the status of the reply.
\*   ok            200, a JSON body
\*   non200        another status, a JSON body
\*   timeout       httpx.TimeoutException after SERVICE1_TIMEOUT
\*   connect_error httpx.ConnectError
\*   bad_json      a reply whose body is not JSON: response.json() raises
HealthOutcomes ==
    { [kind |-> "ok",     json |-> [status |-> "healthy"]],
      [kind |-> "non200", json |-> [detail |-> "unavailable"]] }
    \cup { [kind |-> k, json |-> <<>>] : k \in {"timeout", "connect_error", "bad_json"} }

\* What `client.get(SERVICE1_URL/users)` can come to: as for /health, the JSON
\* body of a 200 being a list of 0..MaxUsers users (here their identifiers)
\* and that of another status an object with one key.
UsersOutcomes ==
    { [kind |-> "ok", json |-> [i \in 1 .. n |-> i]] : n \in 0 .. MaxUsers }
    \cup { [kind |-> "non200", json |-> <<"detail">>] }
    \cup { [kind |-> k, json |-> <<>>] : k \in {"timeout", "connect_error", "bad_json"} }

\* The outcomes in which the awaited call, or response.json(), raises.
ProbeRaises(o) == o.kind \in {"timeout", "connect_error", "bad_json"}

\* GET /cross-service-test, up to the await of the /health probe.
cross_service_test ==
    /\ cross.pc = "idle"
    /\ cross' = [pc |-> "health", results |-> <<>>]
    /\ cross_log' = <<>>
    /\ UNCHANGED <<processed_users_db, analytics_cache, agg, peer_log, written, resp,
                   batch, batch_log>>

\* Lines 166-179, the /health probe has come to o, and lines 181-184, up to the
\* await of the /users probe.
cross_health_return(o) ==
    /\ cross.pc = "health"
    /\ cross' = [pc |-> "users",
                 results |->
                     "service1_health" :>
                         IF ProbeRaises(o)
                         THEN [status |-> "error", error |-> o.kind]
                         ELSE [status |-> "success", response |-> o.json]]
    /\ cross_log' = Append(cross_log, o.kind)
    /\ UNCHANGED <<processed_users_db, analytics_cache, agg, peer_log, written, resp,
                   batch, batch_log>>

\* cross_service_test whose second probe reports what the first one did.
cross_users_return_Copy(o) ==
    /\ cross.pc = "users"
    /\ resp' = Ok("cross_service_test",
                  [ cross_service_test |->
                        cross.results @@
                        ("service1_users" :>
                            IF cross.results["service1_health"].status = "error"
                            THEN [status |-> "error", error |-> o.kind]
                            ELSE [status |-> "success", count |-> Len(o.json)]),
                    service2_status |-> "healthy",
                    processed_users_count |-> Len(processed_users_db) ])
    /\ cross' = CrossIdle
    /\ cross_log' = <<>>
    /\ peer_log' = LogAfter(peer_log, agg, FALSE)
    /\ UNCHANGED <<processed_users_db, analytics_cache, agg, written, batch, batch_log>>

\* Lines 185-196: the /users probe has come to o, and the handler returns.
cross_users_return(o) ==
    /\ cross.pc = "users"
    /\ resp' = Ok("cross_service_test",
                  [ cross_service_test |->
                        cross.results @@
                        ("service1_users" :>
                            IF ProbeRaises(o)
                            THEN [status |-> "error", error |-> o.kind]
                            ELSE [status |-> "success", count |-> Len(o.json)]),
                    service2_status |-> "healthy",
                    processed_users_count |-> Len(processed_users_db) ])
    /\ cross' = CrossIdle
    /\ cross_log' = <<>>
    /\ peer_log' = LogAfter(peer_log, agg, FALSE)
    /\ UNCHANGED <<processed_users_db, analytics_cache, agg, written, batch, batch_log>>

\* ------------------------------------------------------------------ batch_process_users

\* What one `client.post(SERVICE1_URL/process-user, json=user)` can come to:
\* a reply with status 200 or another, a time-out, a connection error.
SubmitOutcomes == {"ok", "non200", "timeout", "connect_error"}

\* The exception handler of lines 225-226: every exception of the try block,
\* the HTTPException of line 224 included, becomes a 500.
BatchFailed(exc) ==
    HTTPException("batch_process_users", 500, <<"Batch processing failed", exc>>)

\* Lines 215-219: the return after the loop.
BatchCompleted(users, processed_count) ==
    Ok("batch_process_users",
       [ message         |-> "Batch processing completed",
         total_users     |-> Len(users),
         processed_count |-> processed_count ])

\* POST /batch-process, up to the await of the GET /users.
batch_process_users ==
    /\ batch.pc = "idle"
    /\ batch' = [BatchIdle EXCEPT !.pc = "fetch"]
    /\ batch_log' = <<>>
    /\ UNCHANGED <<processed_users_db, analytics_cache, agg, peer_log, written, resp,
                   cross, cross_log>>

\* Lines 203-211: the GET /users has come to o; up to the await of the first
\* submission, to the return when the list is empty, or to the 500.
batch_fetch_return(o) ==
    /\ batch.pc = "fetch"
    /\ IF o.kind = "ok" /\ o.json # <<>>
       THEN /\ batch' = [pc |-> "post", users |-> o.json, next |-> 1, processed_count |-> 0]
            /\ UNCHANGED <<resp, peer_log>>
       ELSE /\ batch' = BatchIdle
            /\ resp' = IF o.kind = "ok" THEN BatchCompleted(o.json, 0)
                       ELSE IF o.kind = "non200"
                            THEN BatchFailed("Failed to get users from service1")
                            ELSE BatchFailed(o.kind)
            /\ peer_log' = LogAfter(peer_log, agg, FALSE)
    /\ batch_log' = <<>>
    /\ UNCHANGED <<processed_users_db, analytics_cache, agg, written, cross, cross_log>>

\* Lines 208-219: the submission of users[next] has come to o; up to the await
\* of the next submission, to the return after the last, or to the 500 (the
\* await raises inside the try block of line 201, and nothing in the loop
\* catches it).
batch_post_return(o) ==
    /\ batch.pc = "post"
    /\ LET processed_count ==
               IF o = "ok" THEN batch.processed_count + 1 ELSE batch.processed_count
       IN  IF o \in {"timeout", "connect_error"}
           THEN /\ batch' = BatchIdle
                /\ batch_log' = <<>>
                /\ resp' = BatchFailed(o)
                /\ peer_log' = LogAfter(peer_log, agg, FALSE)
           ELSE IF batch.next = Len(batch.users)
           THEN /\ batch' = BatchIdle
                /\ batch_log' = <<>>
                /\ resp' = BatchCompleted(batch.users, processed_count)
                /\ peer_log' = LogAfter(peer_log, agg, FALSE)
           ELSE /\ batch' = [batch EXCEPT !.next = batch.next + 1,
                                          !.processed_count = processed_count]
                /\ batch_log' = Append(batch_log, o)
                /\ UNCHANGED <<resp, peer_log>>
    /\ UNCHANGED <<processed_users_db, analytics_cache, agg, written, cross, cross_log>>

\* ------------------------------------------------------------------ specification

\* The handlers without an await.
StoreRequest ==
    \/ \E user \in RawUsers : process_user(user)
    \/ \E user_id \in 0 .. MaxId : get_processed_user(user_id)
    \/ get_all_processed_users
    \/ \E user_id \in 0 .. MaxId : delete_processed_user(user_id)

\* Requests are handled concurrently: any handler of the store runs while
\* get_analytics is suspended in a lookup.  cross_service_test and
\* batch_process_users, which write neither the store nor what get_analytics
\* reads, take part in NextSerial.
Next ==
    \/ StoreRequest
    \/ get_analytics
    \/ \E o \in PeerOutcomes : get_analytics_resume(o)

Spec == Init /\ [][Next]_vars

\* No request reaches the store while a get_analytics is suspended.
NextQuiet ==
    \/ agg.pc = "idle" /\ \E user \in RawUsers : process_user(user)
    \/ agg.pc = "idle" /\ \E user_id \in 0 .. MaxId : get_processed_user(user_id)
    \/ agg.pc = "idle" /\ get_all_processed_users
    \/ agg.pc = "idle" /\ \E user_id \in 0 .. MaxId : delete_processed_user(user_id)
    \/ get_analytics
    \/ \E o \in PeerOutcomes : get_analytics_resume(o)

SpecQuiet == Init /\ [][NextQuiet]_vars

\* No request is in flight.
Idle == agg.pc = "idle" /\ batch.pc = "idle" /\ cross.pc = "idle"

\* The users POSTed where every handler of the service takes part: those of
\* RawUsers of the first two age categories.
SerialUsers == {user \in RawUsers : user.age < 50}

\* Every handler of the service, one request at a time.
NextSerial ==
    \/ Idle /\ \E user \in SerialUsers : process_user(user)
    \/ Idle /\ \E user_id \in 0 .. MaxId : get_processed_user(user_id)
    \/ Idle /\ get_all_processed_users
    \/ Idle /\ \E user_id \in 0 .. MaxId : delete_processed_user(user_id)
    \/ Idle /\ get_analytics
    \/ \E o \in PeerOutcomes : get_analytics_resume(o)
    \/ Idle /\ cross_service_test
    \/ \E o \in HealthOutcomes : cross_health_return(o)
    \/ \E o \in UsersOutcomes : cross_users_return(o)
    \/ Idle /\ batch_process_users
    \/ \E o \in UsersOutcomes : batch_fetch_return(o)
    \/ \E o \in SubmitOutcomes : batch_post_return(o)

SpecSerial == Init /\ [][NextSerial]_vars

\* The ages of the users POSTed to examine the derived fields.
Ages == (0 - MaxAge) .. MaxAge

\* The user of identifier 1 and of age n.
DeriveUser(n) ==
    [id |-> <<1>>, name |-> <<"a", "l">>, email |-> <<"a", "@", "b", ".", "c">>, age |-> n]

DeriveUsers == {DeriveUser(n) : n \in Ages}

\* POST /process-user for a user of every age.
NextDerive == \E user \in DeriveUsers : process_user(user)

SpecDerive == Init /\ [][NextDerive]_vars

\* ------------------------------------------------------------------ properties

\* The last response is that of a get_analytics, and peer_log is its history.
AnalyticsAnswered == resp.op = "get_analytics" /\ agg.pc = "idle"

\* The estimate, or the peer's age, that the lookup c of a history stands for:
\* the peer's age when it answered 200 with a numeric age, else the estimate
\* of the record's stored category.
Resolved(c) ==
    IF c.result = "ok" THEN c.age.v ELSE Estimate(c.age_category)

RECURSIVE SumResolved(_)
SumResolved(calls) ==
    IF calls = <<>> THEN 0 ELSE Resolved(calls[1]) + SumResolved(Tail(calls))

\* C1: GET /analytics never errors, also when a POST /process-user of a new
\* identifier or a successful DELETE is handled while it is suspended in a
\* lookup.  Stated for the requests during which the store was written and
\* whose lookups all raised or answered 200 with a numeric age: each of them
\* is answered 200.
C1_AnalyticsNeverErrors ==
    ( /\ AnalyticsAnswered
      /\ peer_log.mutated
      /\ \A i \in 1 .. Len(peer_log.calls) :
             peer_log.calls[i].result \in {"ok", "raised"} )
    => resp.status = 200

\* The stored records, in the store's order.
Stored == DictValues(processed_users_db)

RECURSIVE SumEstimates(_)
\* The sum of the estimates of the stored categories of a list of records.
SumEstimates(records) ==
    IF records = <<>> THEN 0
    ELSE Estimate(records[1].processed_data.age_category) + SumEstimates(Tail(records))

\* The number of stored records of category c.
CountCategory(c) ==
    Cardinality({i \in 1 .. Len(Stored) : Stored[i].processed_data.age_category = c})

\* C2: for every record visited exactly one age is accumulated, the peer's age
\* when the lookup answered 200 with a numeric age and the estimate of the
\* stored category otherwise, so that the average_age of a 200 response is the
\* sum of these values over total_users.
C2_OneAgePerRecord ==
    /\ agg.pc = "await" => Len(agg.ages) = Len(peer_log.calls)
    /\ (AnalyticsAnswered /\ resp.status = 200 /\ peer_log.started > 0)
           => resp.body.average_age =
                  Round2(SumResolved(peer_log.calls), resp.body.total_users)

\* C3: with no write of the store during the request, whatever the lookups
\* come to, GET /analytics on a non-empty store answers 200, has looked up
\* every stored record in turn, and counts every one in total_users and in
\* the histogram.
C3_FailureNeverAborts ==
    (AnalyticsAnswered /\ peer_log.started > 0 /\ ~peer_log.mutated)
        => /\ resp.status = 200
           /\ resp.body.total_users = Len(Stored)
           /\ peer_log.issued = [i \in 1 .. Len(Stored) |-> Stored[i].user_id]
           /\ \A c \in Categories : resp.body.age_distribution[c] = CountCategory(c)

\* The whole of C4: when every lookup of the request times out or fails to connect and the
\* store is not empty, GET /analytics answers 200 with total_users the number
\* of stored records and average_age the mean of the estimates of their
\* stored categories.
C4_UnreachablePeerEstimates ==
    (AnalyticsAnswered /\ peer_log.started > 0 /\ peer_log.unreachable)
        => /\ resp.status = 200
           /\ resp.body.total_users = Len(Stored)
           /\ resp.body.average_age = Round2(SumEstimates(Stored), Len(Stored))

\* C4 for the requests during which the store was not written.
C4_UnreachablePeerEstimatesQuiet ==
    peer_log.mutated \/ C4_UnreachablePeerEstimates

\* C4, its first part: when every lookup of the request times out or fails to
\* connect and the store is not empty, GET /analytics answers 200.
C4_UnreachablePeerAnswers200 ==
    (AnalyticsAnswered /\ peer_log.started > 0 /\ peer_log.unreachable)
        => resp.status = 200

\* C5: a GET /analytics entered on an empty store answers 200 with
\* total_users 0, average_age 0.0, an empty distribution and empty
\* processing stats, and sends no lookup to the peer.
C5_EmptyStoreAnalytics ==
    (AnalyticsAnswered /\ peer_log.started = 0)
        => /\ resp = Ok("get_analytics", AnalyticsSummary(0, 0, EmptyDict, EmptyDict))
           /\ peer_log.issued = <<>>
           /\ peer_log.calls = <<>>

\* A GET /analytics has been answered on a store emptied by a DELETE.
C5_Witness ==
    /\ AnalyticsAnswered
    /\ peer_log.started = 0
    /\ processed_users_db = EmptyDict
    /\ resp.status = 200
    /\ analytics_cache = EmptyDict

\* The identifiers that are keys of the store d, other than id.
OtherKeys(d, id) == DictKeys(d) \ {id}

\* The stored value is a whole record: the one process_user derives from some
\* user with that identifier.
Complete(item) ==
    \E user \in RawUsers :
        /\ user.id = <<item.key>>
        /\ item.value = ProcessedUserData(user)

\* C6: requests handled in any interleaving lose no write and leave no partial
\* entry: a successful POST leaves the record of every other identifier in
\* the store as it was and its own identifier mapped to the whole record
\* derived from its body, a DELETE leaves the identifier absent, and every
\* stored value is at all times a whole record.
C6_NoLostWrite ==
    /\ [](\A i \in 1 .. Len(processed_users_db) : Complete(processed_users_db[i]))
    /\ [][ /\ \A user \in RawUsers :
                 ( /\ resp'.op = "process_user"
                   /\ user.id \notin {<<>>, <<0>>}
                   /\ written'[user.id[1]] = <<user>>
                   /\ process_user(user) )
                     => /\ \A j \in OtherKeys(processed_users_db, user.id[1]) :
                               /\ j \in DictKeys(processed_users_db')
                               /\ DictGet(processed_users_db', j) = DictGet(processed_users_db, j)
                        /\ user.id[1] \in DictKeys(processed_users_db')
                        /\ DictGet(processed_users_db', user.id[1]) = ProcessedUserData(user)
           /\ \A id \in Ids :
                 (resp'.op = "delete_processed_user" /\ delete_processed_user(id))
                     => id \notin DictKeys(processed_users_db') ]_vars

\* Two records are stored, the second POSTed after the first.
C6_Witness ==
    /\ Len(processed_users_db) = 2
    /\ resp.op = "process_user"
    /\ resp.status = 200
    /\ resp.body.user_id = processed_users_db[2].key

\* C7: GET /processed-users/{id} answers 200 with exactly the record derived
\* from the user of the most recent successful POST for id when no successful
\* DELETE of id came later, and 404 after a successful DELETE until id is
\* POSTed again (and when id was never POSTed).
C7_RoundTrip ==
    [][ \A id \in Ids :
            (resp'.op = "get_processed_user" /\ get_processed_user(id))
                => resp' = IF written[id] # <<>>
                           THEN Ok("get_processed_user", ProcessedUserData(written[id][1]))
                           ELSE HTTPException("get_processed_user", 404,
                                              "Processed user data not found") ]_vars

\* A GET has answered the record of the second of two stored identifiers.
C7_Witness ==
    /\ resp.op = "get_processed_user"
    /\ resp.status = 200
    /\ Len(processed_users_db) = 2
    /\ resp.body.user_id = processed_users_db[2].key
    /\ resp.body = ProcessedUserData(written[resp.body.user_id][1])

\* C8: every key of the store has exactly one item, whose record carries the
\* key as user_id and is the one derived from the most recent successful POST
\* for it; an identifier is a key exactly when its most recent successful
\* write was a POST.
C8_LastWriteWins ==
    /\ DictKeys(processed_users_db) \subseteq Ids
    /\ \A id \in Ids :
          /\ Cardinality({i \in 1 .. Len(processed_users_db) : processed_users_db[i].key = id})
                 = IF written[id] = <<>> THEN 0 ELSE 1
          /\ written[id] # <<>> =>
                 /\ DictGet(processed_users_db, id) = ProcessedUserData(written[id][1])
                 /\ DictGet(processed_users_db, id).user_id = id

\* A DELETE has removed one identifier while another stays stored.
C8_Witness ==
    /\ resp.op = "delete_processed_user"
    /\ resp.status = 200
    /\ written[resp.body.user_id] = <<>>
    /\ \E id \in Ids : written[id] # <<>>

\* C9: POST /process-user with the identifier None or 0 answers 400 and leaves
\* the store as it was; with any other identifier it answers 200 with that
\* user_id and the store maps the identifier to the derived record.
C9_ProcessUserValidation ==
    [][ \A user \in RawUsers :
            ( /\ resp'.op = "process_user"
              /\ user.id \in {<<>>, <<0>>} \/ written'[user.id[1]] = <<user>>
              /\ process_user(user) )
                => IF user.id \in {<<>>, <<0>>}
                   THEN /\ resp'.status = 400
                        /\ processed_users_db' = processed_users_db
                   ELSE /\ resp'.status = 200
                        /\ resp'.body.user_id = user.id[1]
                        /\ user.id[1] \in DictKeys(processed_users_db')
                        /\ DictGet(processed_users_db', user.id[1]) = ProcessedUserData(user) ]_vars

\* A POST has been refused with 400 on a store that holds a record.
C9_Witness ==
    /\ resp.op = "process_user"
    /\ resp.status = 400
    /\ processed_users_db # EmptyDict

\* C10: GET and DELETE of an identifier that is not in the store answer 404
\* and leave the store as it was; DELETE of a stored identifier answers 200,
\* removes that identifier and leaves the items of all others as they were.
C10_NotFoundAndDeleteFrame ==
    [][ \A id \in 0 .. MaxId :
            /\ ( /\ resp'.op = "get_processed_user"
                 /\ id \notin DictKeys(processed_users_db)
                 /\ get_processed_user(id) )
                   => resp'.status = 404 /\ processed_users_db' = processed_users_db
            /\ ( /\ resp'.op = "delete_processed_user"
                 /\ id \notin DictKeys(processed_users_db)
                 /\ delete_processed_user(id) )
                   => resp'.status = 404 /\ processed_users_db' = processed_users_db
            /\ ( /\ resp'.op = "delete_processed_user"
                 /\ id \in DictKeys(processed_users_db)
                 /\ delete_processed_user(id) )
                   => /\ resp'.status = 200
                      /\ DictKeys(processed_users_db') = OtherKeys(processed_users_db, id)
                      /\ \A j \in OtherKeys(processed_users_db, id) :
                             DictGet(processed_users_db', j) = DictGet(processed_users_db, j) ]_vars

\* A DELETE has answered 200 and another identifier is still stored.
C10_Witness ==
    /\ resp.op = "delete_processed_user"
    /\ resp.status = 200
    /\ resp.body.user_id \notin DictKeys(processed_users_db)
    /\ processed_users_db # EmptyDict

RECURSIVE CountOk(_)
\* The number of submissions of a history that answered 200.
CountOk(log) ==
    IF log = <<>> THEN 0
    ELSE (IF log[1] = "ok" THEN 1 ELSE 0) + CountOk(Tail(log))

\* C11: POST /batch-process answers 500 when the fetch of the users fails;
\* after a fetch answered 200 with the users, a submission that fails (another
\* status than 200, a time-out, a connection error) is skipped: the next user
\* is submitted, and after the last one the response is 200 with total_users
\* the number of users fetched and processed_count the number of submissions
\* that answered 200.
C11_BatchSkipsFailedSubmissions ==
    [][ /\ \A o \in UsersOutcomes :
              (batch.pc = "fetch" /\ o.kind # "ok" /\ batch_fetch_return(o))
                  => resp'.op = "batch_process_users" /\ resp'.status = 500
        /\ \A o \in UsersOutcomes :
              (batch.pc = "fetch" /\ o.kind = "ok" /\ batch_fetch_return(o))
                  => IF o.json = <<>>
                     THEN resp' = BatchCompleted(<<>>, 0)
                     ELSE batch'.pc = "post" /\ batch'.users = o.json /\ batch'.next = 1
        /\ \A o \in SubmitOutcomes :
              (batch.pc = "post" /\ batch_post_return(o))
                  => IF batch.next < Len(batch.users)
                     THEN /\ batch'.pc = "post"
                          /\ batch'.users = batch.users
                          /\ batch'.next = batch.next + 1
                     ELSE /\ resp'.op = "batch_process_users"
                          /\ resp'.status = 200
                          /\ resp'.body.total_users = Len(batch.users)
                          /\ resp'.body.processed_count = CountOk(Append(batch_log, o)) ]_vars

\* C11 for the submissions that get a reply, of status 200 or another.
C11_BatchSkipsNon200 ==
    [][ \A o \in {"ok", "non200"} :
            (batch.pc = "post" /\ batch_post_return(o))
                => IF batch.next < Len(batch.users)
                   THEN /\ batch'.pc = "post"
                        /\ batch'.users = batch.users
                        /\ batch'.next = batch.next + 1
                   ELSE /\ resp'.op = "batch_process_users"
                        /\ resp'.status = 200
                        /\ resp'.body.total_users = Len(batch.users)
                        /\ resp'.body.processed_count = CountOk(Append(batch_log, o)) ]_vars

\* A probe fails when its call raises: a time-out, a connection error, or a
\* reply whose body cannot be read.  A reply of any status with a JSON body is
\* a success (the handler does not look at the status).
ProbeFailures == {"timeout", "connect_error", "bad_json"}

\* C12: GET /cross-service-test answers 200 whatever the two probes come to;
\* the user-count probe is sent whatever the health probe came to; and in the
\* response each of the two results has status "error" when its own probe
\* failed and "success" when it did not.
C12_ProbesIndependent ==
    [][ /\ \A o \in HealthOutcomes :
              (cross.pc = "health" /\ cross_health_return(o)) => cross'.pc = "users"
        /\ \A o \in UsersOutcomes :
              (cross.pc = "users" /\ cross_users_return(o))
                  => /\ Len(cross_log) = 1
                     /\ resp'.op = "cross_service_test"
                     /\ resp'.status = 200
                     /\ LET results == resp'.body.cross_service_test
                        IN  /\ DOMAIN results = {"service1_health", "service1_users"}
                            /\ results["service1_health"].status =
                                   IF cross_log[1] \in ProbeFailures THEN "error" ELSE "success"
                            /\ results["service1_users"].status =
                                   IF o.kind \in ProbeFailures THEN "error" ELSE "success" ]_vars

\* A response reports the health probe failed and the user-count probe
\* succeeded with two users, on a store that holds a record.
C12_Witness ==
    /\ resp.op = "cross_service_test"
    /\ resp.status = 200
    /\ resp.body.cross_service_test["service1_health"].status = "error"
    /\ resp.body.cross_service_test["service1_users"] = [status |-> "success", count |-> 2]
    /\ resp.body.processed_users_count = 1

\* C13: the record stored by POST /process-user for a user of any age has
\* age_category young up to 29, middle from 30 to 49 and senior from 50 on,
\* and is_adult exactly from 18 on; so a record that is not adult is young.
C13_AgeBoundaries ==
    \A id \in Ids :
        written[id] # <<>> =>
            LET n    == written[id][1].age
                data == DictGet(processed_users_db, id).processed_data
            IN  /\ data.age_category =
                       IF n <= 29 THEN "young" ELSE IF n <= 49 THEN "middle" ELSE "senior"
                /\ data.is_adult = (n > 17)
                /\ ~data.is_adult => data.age_category = "young"

\* The record of a user of age 30 is stored: middle and adult.
C13_Witness ==
    /\ written[1] # <<>>
    /\ written[1][1].age = 30
    /\ DictGet(processed_users_db, 1).processed_data.age_category = "middle"
    /\ DictGet(processed_users_db, 1).processed_data.is_adult

\* C14: no stale aggregate is served: the total_users and the age_distribution
\* of a 200 response of GET /analytics on a store that was not empty are the
\* number of records, and the number of records of each category, of the store
\* as it is when the response is sent, also when a POST /process-user has
\* overwritten a visited identifier with another category while the request
\* was suspended in a lookup.
C14_NoStaleAggregate ==
    (AnalyticsAnswered /\ resp.status = 200 /\ peer_log.started > 0)
        => /\ resp.body.total_users = Len(Stored)
           /\ \A c \in Categories : resp.body.age_distribution[c] = CountCategory(c)

\* The user_id of the stored records, in the store's order.
StoredIds == [i \in 1 .. Len(Stored) |-> Stored[i].user_id]

\* C15: a GET /analytics on a store of n >= 1 records that is not written
\* during the request sends exactly n lookups, one for each stored identifier
\* in the store's order, one after the other: a lookup is sent only when the
\* one before it has returned or raised, so at most one is outstanding.
C15_SequentialLookups ==
    ~peer_log.mutated =>
        /\ Len(peer_log.issued) = Len(peer_log.calls) + (IF agg.pc = "await" THEN 1 ELSE 0)
        /\ \A i \in 1 .. Len(peer_log.calls) :
               peer_log.calls[i].user_id = peer_log.issued[i]
        /\ agg.pc = "await" =>
               peer_log.issued = SubSeq(StoredIds, 1, Len(peer_log.issued))
        /\ (AnalyticsAnswered /\ peer_log.started > 0) =>
               /\ peer_log.issued = StoredIds
               /\ Len(peer_log.calls) = Len(Stored)

\* A GET /analytics has answered for two records, the lookup of the first of
\* which had raised before the second was sent.
C15_Witness ==
    /\ AnalyticsAnswered
    /\ ~peer_log.mutated
    /\ Len(peer_log.issued) = 2
    /\ peer_log.issued[1] = 2
    /\ peer_log.calls[1].result = "raised"
    /\ peer_log.calls[2].result = "ok"

\* C16: in a 200 response of GET /analytics on a store that is not empty and
\* is not written during the request, the histogram has the keys young,
\* middle and senior and no other, its counts add up to total_users,
\* total_users is processing_stats.total_processed and the number of stored
\* records, and the count of each category is the number of stored records of
\* that category, whatever the lookups came to.
C16_HistogramCounts ==
    (AnalyticsAnswered /\ resp.status = 200 /\ peer_log.started > 0 /\ ~peer_log.mutated)
        => LET h == resp.body.age_distribution
           IN  /\ DOMAIN h = {"young", "middle", "senior"}
               /\ h["young"] + h["middle"] + h["senior"] = resp.body.total_users
               /\ resp.body.total_users = resp.body.processing_stats.total_processed
               /\ resp.body.total_users = Len(processed_users_db)
               /\ \A c \in DOMAIN h : h[c] = CountCategory(c)

\* A response counts two stored records in one category, the peer having
\* reported for one of them an age of another category.
C16_Witness ==
    /\ AnalyticsAnswered
    /\ resp.status = 200
    /\ ~peer_log.mutated
    /\ peer_log.started = 2
    /\ resp.body.age_distribution["young"] = 2
    /\ \E i \in 1 .. Len(peer_log.calls) :
           peer_log.calls[i].result = "ok" /\ AgeCategory(peer_log.calls[i].age.v) # "young"

\* C17: the existence check and the removal of DELETE /processed-users/{id}
\* are one step with respect to the other requests: a DELETE of a stored
\* identifier answers 200 and leaves it absent, a DELETE of the same
\* identifier handled next answers 404, no DELETE ends in an unhandled error,
\* and a GET /processed-users/{id} handled in between answers a whole record
\* of that identifier or 404.
C17_DeleteAtomic ==
    [][ /\ \A id \in Ids :
              (resp'.op = "delete_processed_user" /\ delete_processed_user(id))
                  => /\ resp'.status = IF id \in DictKeys(processed_users_db) THEN 200 ELSE 404
                     /\ id \notin DictKeys(processed_users_db')
                     /\ ( /\ resp.op = "delete_processed_user"
                          /\ resp.status = 200
                          /\ resp.body.user_id = id ) => resp'.status = 404
        /\ \A id \in Ids :
              (resp'.op = "get_processed_user" /\ get_processed_user(id))
                  => \/ resp'.status = 404 /\ id \notin DictKeys(processed_users_db)
                     \/ /\ resp'.status = 200
                        /\ Complete([key |-> id, value |-> resp'.body]) ]_vars

\* A DELETE has answered 404 while the record of another identifier is stored.
C17_Witness ==
    /\ resp.op = "delete_processed_user"
    /\ resp.status = 404
    /\ Len(processed_users_db) = 1

\* The stored age category of identifier id in the store d.
StoredCategory(d, id) == DictGet(d, id).processed_data.age_category

\* C18: a step of GET /analytics, GET /processed-users, GET
\* /processed-users/{id}, GET /cross-service-test or POST /batch-process
\* leaves the store as it was, whatever the peer answers; and the stored age
\* category of an identifier changes only in a POST /process-user for it.
C18_ReadOnlyHandlers ==
    [][ /\ ( \/ (agg' # agg \/ resp'.op = "get_analytics") /\ get_analytics
             \/ agg.pc = "await" /\ \E o \in PeerOutcomes : get_analytics_resume(o)
             \/ resp'.op = "get_all_processed_users" /\ get_all_processed_users
             \/ resp'.op = "get_processed_user"
                    /\ \E id \in 0 .. MaxId : get_processed_user(id)
             \/ cross' # cross /\ cross_service_test
             \/ cross.pc = "health" /\ \E o \in HealthOutcomes : cross_health_return(o)
             \/ cross.pc = "users" /\ \E o \in UsersOutcomes : cross_users_return(o)
             \/ batch' # batch /\ batch_process_users
             \/ batch.pc = "fetch" /\ \E o \in UsersOutcomes : batch_fetch_return(o)
             \/ batch.pc = "post" /\ \E o \in SubmitOutcomes : batch_post_return(o) )
               => processed_users_db' = processed_users_db
        /\ \A id \in DictKeys(processed_users_db) \cap DictKeys(processed_users_db') :
               StoredCategory(processed_users_db', id) # StoredCategory(processed_users_db, id)
                   => /\ resp'.op = "process_user"
                      /\ resp'.status = 200
                      /\ resp'.body.user_id = id ]_vars

\* A GET /analytics has answered after the peer reported, for a stored young
\* record, an age that is not young; the record is stored as it was.
C18_Witness ==
    /\ AnalyticsAnswered
    /\ resp.status = 200
    /\ \E i \in 1 .. Len(peer_log.calls) :
           /\ peer_log.calls[i].result = "ok"
           /\ peer_log.calls[i].age_category = "young"
           /\ AgeCategory(peer_log.calls[i].age.v) = "middle"
           /\ StoredCategory(processed_users_db, peer_log.calls[i].user_id) = "young"

\* The keys of the store d, in its order.
KeyOrder(d) == [i \in 1 .. Len(d) |-> d[i].key]

\* C19: GET /processed-users answers the stored records, one for each stored
\* identifier, in the store's order, which is the order of insertion: a POST
\* of an absent identifier puts it last, a POST of a stored identifier leaves
\* the order as it was, and a DELETE takes its identifier out and leaves the
\* order of the others as it was (so an identifier deleted and POSTed again
\* is last).
C19_InsertionOrder ==
    [][ /\ (resp'.op = "get_all_processed_users" /\ get_all_processed_users)
              => /\ Len(resp'.body) = Cardinality(DictKeys(processed_users_db))
                 /\ \A i \in 1 .. Len(resp'.body) :
                        /\ resp'.body[i] = processed_users_db[i].value
                        /\ resp'.body[i].user_id = processed_users_db[i].key
        /\ \A user \in RawUsers :
              ( /\ resp'.op = "process_user"
                /\ user.id \notin {<<>>, <<0>>}
                /\ written'[user.id[1]] = <<user>>
                /\ process_user(user) )
                  => KeyOrder(processed_users_db') =
                         IF written[user.id[1]] # <<>>
                         THEN KeyOrder(processed_users_db)
                         ELSE Append(KeyOrder(processed_users_db), user.id[1])
        /\ \A id \in Ids :
              ( /\ resp'.op = "delete_processed_user"
                /\ written[id] # <<>>
                /\ delete_processed_user(id) )
                  => KeyOrder(processed_users_db') =
                         SelectSeq(KeyOrder(processed_users_db), LAMBDA k : k # id) ]_vars

\* GET /processed-users has answered two records, that of identifier 2 first.
C19_Witness ==
    /\ resp.op = "get_all_processed_users"
    /\ Len(resp.body) = 2
    /\ resp.body[1].user_id = 2
    /\ resp.body[2].user_id = 1

\* C20: analytics_cache is empty in every reachable state: no handler writes
\* it, and a successful POST /process-user or DELETE clears it.
C20_CacheAlwaysEmpty == analytics_cache = EmptyDict

\* A successful DELETE has emptied the store after a POST: both cleared the
\* cache.
C20_Witness ==
    /\ resp.op = "delete_processed_user"
    /\ resp.status = 200
    /\ processed_users_db = EmptyDict
    /\ analytics_cache = EmptyDict
    /\ batch.pc = "idle"

====
